---- MODULE Spec2Model ----
(***************************************************************************)
(* A model of fileurlsplit.FileUrlSplit (src/src/fileurlsplit.py): one     *)
(* object holding url, path, filename, name and extension, its constructor *)
(* and its five property setters.                                          *)
(*                                                                         *)
(* A Python str is a sequence of characters, each character a TLA+ string  *)
(* (one character long for printable ASCII; "<0x..>" for a control         *)
(* character and the grave accent, "<U+FFFD>" for the replacement          *)
(* character).  None is the value None below.  os.path is posixpath: the   *)
(* modelled sys.platform values are those of POSIX builds (the "Windows"   *)
(* profile is reached as cygwin); ntpath (win32) is outside the model.     *)
(***************************************************************************)
EXTENDS Integers, Sequences, FiniteSets, TLC

VARIABLES
    sys_platform,   \* sys.platform of the process
    platform,       \* self.__platform
    invalid_chars,  \* self.__invalid_chars
    invalid_names,  \* self.__invalid_names (None unless Windows)
    url,            \* self.__url
    path,           \* self.__path
    filename,       \* self.__filename
    name,           \* self.__name
    extension,      \* self.__extension
    constructed,    \* TRUE once __init__ has returned normally
    op,             \* the last operation called
    arg,            \* its argument
    err,            \* the exception it raised, or "none"
    ncalls          \* number of setter calls made so far

vars == <<sys_platform, platform, invalid_chars, invalid_names, url, path,
          filename, name, extension, constructed, op, arg, err, ncalls>>

fields == <<url, path, filename, name, extension>>

----------------------------------------------------------------------------
(* Bounds of the model.                                                    *)

\* The segment length limit; 255 in the source, scaled.
LenLimit == 5
\* Longest generic body of a url or path argument.
MaxUrlLen == 2
\* Longest generic name, filename or extension argument.
MaxNameLen == 2
\* Number of setter calls made on one object.
MaxCalls == 1

\* the longest generic filename given to the extension derivation
MaxExtLen == 5

----------------------------------------------------------------------------
(* Python values and str primitives.                                       *)

None == <<"<None>">>

\* "not x" for x a str or None
Falsy(x) == x = None \/ x = <<>>

SubStr(s, i, j) == IF j < i THEN <<>> ELSE [k \in 1..(j - i + 1) |-> s[i + k - 1]]

\* s[i:] with a 1-based i
From(s, i) == SubStr(s, i, Len(s))

\* s[i : i + len(p)] == p
MatchAt(s, p, i) ==
    /\ i >= 1
    /\ i + Len(p) - 1 <= Len(s)
    /\ \A k \in 1..Len(p) : s[i + k - 1] = p[k]

\* p in s
Contains(s, p) == \E i \in 1..(Len(s) + 1) : MatchAt(s, p, i)

\* s.startswith(p)
StartsWith(s, p) == MatchAt(s, p, 1)

\* c in s, for a character c
HasChar(s, c) == \E i \in 1..Len(s) : s[i] = c

RECURSIVE ReplaceFrom(_, _, _, _)
ReplaceFrom(s, old, new, i) ==
    IF i > Len(s) THEN <<>>
    ELSE IF MatchAt(s, old, i) THEN new \o ReplaceFrom(s, old, new, i + Len(old))
    ELSE <<s[i]>> \o ReplaceFrom(s, old, new, i + 1)

RECURSIVE Interleave(_, _, _)
Interleave(s, new, i) ==
    IF i > Len(s) THEN new ELSE new \o <<s[i]>> \o Interleave(s, new, i + 1)

\* s.replace(old, new): every non-overlapping occurrence, leftmost first
Replace(s, old, new) ==
    IF old = <<>> THEN Interleave(s, new, 1) ELSE ReplaceFrom(s, old, new, 1)

\* s.replace(c, d) for characters c and d
ReplaceChar(s, c, d) == [i \in 1..Len(s) |-> IF s[i] = c THEN d ELSE s[i]]

RECURSIVE LStrip(_, _)
\* s.lstrip(c)
LStrip(s, c) == IF s # <<>> /\ s[1] = c THEN LStrip(Tail(s), c) ELSE s

RECURSIVE RStrip(_, _)
\* s.rstrip(c)
RStrip(s, c) ==
    IF s # <<>> /\ s[Len(s)] = c THEN RStrip(SubStr(s, 1, Len(s) - 1), c) ELSE s

\* s.rfind(c), 1-based; 0 when c is not in s
RFind(s, c) ==
    IF HasChar(s, c) THEN CHOOSE i \in 1..Len(s) :
                              s[i] = c /\ \A k \in (i + 1)..Len(s) : s[k] # c
    ELSE 0

RECURSIVE SplitFrom(_, _, _, _)
SplitFrom(s, c, i, cur) ==
    IF i > Len(s) THEN <<cur>>
    ELSE IF s[i] = c THEN <<cur>> \o SplitFrom(s, c, i + 1, <<>>)
    ELSE SplitFrom(s, c, i + 1, Append(cur, s[i]))

\* s.split(c): the list of the pieces between the occurrences of c
Split(s, c) == SplitFrom(s, c, 1, <<>>)

----------------------------------------------------------------------------
(* Character classes.                                                      *)

Digits == {"0", "1", "2", "3", "4", "5", "6", "7", "8", "9"}

Letters ==
    {"a", "b", "c", "d", "e", "f", "g", "h", "i", "j", "k", "l", "m",
     "n", "o", "p", "q", "r", "s", "t", "u", "v", "w", "x", "y", "z",
     "A", "B", "C", "D", "E", "F", "G", "H", "I", "J", "K", "L", "M",
     "N", "O", "P", "Q", "R", "S", "T", "U", "V", "W", "X", "Y", "Z"}

\* \w of the re module on the model's characters
IsWord(c) == c \in Letters \cup Digits \cup {"_"}

\* the characters 0x00..0x7F, by code point
Ascii == <<
    "<0x00>", "<0x01>", "<0x02>", "<0x03>", "<0x04>", "<0x05>", "<0x06>", "<0x07>",
    "<0x08>", "\t", "\n", "<0x0B>", "\f", "\r", "<0x0E>", "<0x0F>",
    "<0x10>", "<0x11>", "<0x12>", "<0x13>", "<0x14>", "<0x15>", "<0x16>", "<0x17>",
    "<0x18>", "<0x19>", "<0x1A>", "<0x1B>", "<0x1C>", "<0x1D>", "<0x1E>", "<0x1F>",
    " ", "!", "\"", "#", "$", "%", "&", "'",
    "(", ")", "*", "+", ",", "-", ".", "/",
    "0", "1", "2", "3", "4", "5", "6", "7",
    "8", "9", ":", ";", "<", "=", ">", "?",
    "@", "A", "B", "C", "D", "E", "F", "G",
    "H", "I", "J", "K", "L", "M", "N", "O",
    "P", "Q", "R", "S", "T", "U", "V", "W",
    "X", "Y", "Z", "[", "\\", "]", "^", "_",
    "<0x60>", "a", "b", "c", "d", "e", "f", "g",
    "h", "i", "j", "k", "l", "m", "n", "o",
    "p", "q", "r", "s", "t", "u", "v", "w",
    "x", "y", "z", "{", "|", "}", "~", "<0x7F>"
>>

\* U+FFFD, what errors='replace' puts for an undecodable byte
ReplacementChar == "<U+FFFD>"

HexDigits ==
    Digits \cup {"a", "b", "c", "d", "e", "f", "A", "B", "C", "D", "E", "F"}

HexVal(c) ==
    CASE c \in Digits -> (CHOOSE n \in 0..9 : Ascii[49 + n] = c)
      [] c \in {"a", "A"} -> 10
      [] c \in {"b", "B"} -> 11
      [] c \in {"c", "C"} -> 12
      [] c \in {"d", "D"} -> 13
      [] c \in {"e", "E"} -> 14
      [] c \in {"f", "F"} -> 15

\* The character a %XX escape decodes to.  A byte below 0x80 is its ASCII
\* character.  A byte from 0x80 up is decoded with errors='replace'; the
\* arguments of this model never hold a %XX run that is a valid multi-byte
\* UTF-8 sequence, so each such byte is an undecodable one.
DecodeByte(b) == IF b < 128 THEN Ascii[b + 1] ELSE ReplacementChar

RECURSIVE UnquoteFrom(_, _)
UnquoteFrom(s, i) ==
    IF i > Len(s) THEN <<>>
    ELSE IF /\ s[i] = "%"
            /\ i + 2 <= Len(s)
            /\ s[i + 1] \in HexDigits
            /\ s[i + 2] \in HexDigits
         THEN <<DecodeByte(16 * HexVal(s[i + 1]) + HexVal(s[i + 2]))>>
                  \o UnquoteFrom(s, i + 3)
         ELSE <<s[i]>> \o UnquoteFrom(s, i + 1)

\* urllib.parse.unquote(string=s, encoding='utf-8', errors='replace')
Unquote(s) == UnquoteFrom(s, 1)

\* os.path.dirname (posixpath)
Dirname(p) ==
    LET i == RFind(p, "/")
        head == SubStr(p, 1, i)
    IN  IF head # <<>> /\ \E k \in 1..Len(head) : head[k] # "/"
        THEN RStrip(head, "/")
        ELSE head

----------------------------------------------------------------------------
(* Results of a call that may raise.                                       *)

Ok(v) == [err |-> "none", val |-> v]

Raise(kind) == [err |-> kind, val |-> <<>>]

----------------------------------------------------------------------------
(* FileUrlSplit's private helpers.                                         *)

\* re.search(r'^\w+:', s): the match's end (the index of its ':'), 0 for
\* no match
PrefixMatchEnd(s) ==
    IF \E k \in 2..Len(s) : s[k] = ":" /\ \A j \in 1..(k - 1) : IsWord(s[j])
    THEN CHOOSE k \in 2..Len(s) : s[k] = ":" /\ \A j \in 1..(k - 1) : IsWord(s[j])
    ELSE 0

\* the end of a match of r'/\w.+$' that starts at i, 0 when none does:
\* '.' takes no newline, '$' is the end or sits before one last newline
SlashWordEnd(s, i) ==
    LET n == Len(s)
        stop == IF n >= 1 /\ s[n] = "\n" THEN n - 1 ELSE n
    IN  IF /\ i + 2 <= stop
           /\ s[i] = "/"
           /\ IsWord(s[i + 1])
           /\ \A k \in (i + 2)..stop : s[k] # "\n"
        THEN stop
        ELSE 0

\* re.search(r'/\w.+$', s): <<start, end>> of the leftmost match, <<0, 0>>
\* for no match
SlashWordMatch(s) ==
    IF \E i \in 1..Len(s) : SlashWordEnd(s, i) > 0
    THEN LET i == CHOOSE i \in 1..Len(s) :
                      /\ SlashWordEnd(s, i) > 0
                      /\ \A j \in 1..(i - 1) : SlashWordEnd(s, j) = 0
         IN  <<i, SlashWordEnd(s, i)>>
    ELSE <<0, 0>>

\* A faulty variant of get_url that keeps a scheme or drive prefix.
get_url_keeps_prefix(file_url) ==
    IF Falsy(file_url) THEN Ok(<<"/">>)
    ELSE LET u == ReplaceChar(Unquote(file_url), "\\", "/")
             e == PrefixMatchEnd(u)
         IN  IF e > 0
             THEN IF Len(u) = e THEN Raise("IndexError")
                  ELSE IF u[e + 1] # "/" THEN Raise("AbsolutePathError")
                  ELSE Ok(u)
             ELSE IF u = <<>> THEN Raise("IndexError")
                  ELSE IF u[1] # "/" THEN Raise("AbsolutePathError")
                  ELSE Ok(u)

\* FileUrlSplit.__get_url
get_url(file_url) ==
    IF Falsy(file_url) THEN Ok(<<"/">>)
    ELSE LET u == ReplaceChar(Unquote(file_url), "\\", "/")
             e == PrefixMatchEnd(u)
             m == SlashWordMatch(u)
             clean == IF m[1] > 0 THEN SubStr(u, m[1], m[2]) ELSE u
         IN  IF e > 0
             THEN \* file_url[prefix_match.end():][0]
                  IF Len(u) = e THEN Raise("IndexError")
                  ELSE IF u[e + 1] # "/" THEN Raise("AbsolutePathError")
                  ELSE Ok(clean)
             ELSE IF u = <<>> THEN Raise("IndexError")
                  ELSE IF u[1] # "/" THEN Raise("AbsolutePathError")
                  ELSE Ok(clean)

\* FileUrlSplit.__get_path, of self.__url
get_path(u) ==
    LET p == Dirname(u) IN IF p = <<"/">> THEN p ELSE p \o <<"/">>

\* FileUrlSplit.__get_filename, of self.__url and self.__path
get_filename(u, p) == Replace(u, p, <<>>)

\* A faulty variant of get_extension that has no inner extensions: what
\* follows the last dot, as os.path.splitext gives.
get_extension_splitext(f) ==
    LET file_name == LStrip(f, ".")
        file_slices == Split(file_name, ".")
    IN  IF ~HasChar(file_name, ".") \/ file_name[Len(file_name)] = "."
        THEN <<>>
        ELSE <<".">> \o file_slices[Len(file_slices)]

\* FileUrlSplit.__get_extension, of self.__filename
get_extension(f) ==
    LET file_name == LStrip(f, ".")
        file_slices == Split(file_name, ".")
        n == Len(file_slices)
    IN  IF ~HasChar(file_name, ".") \/ file_name[Len(file_name)] = "."
        THEN <<>>
        ELSE IF n = 2 THEN <<".">> \o file_slices[n]
        ELSE IF n > 2
             THEN IF file_slices[n - 1] = <<"t", "a", "r">>
                  THEN <<".">> \o file_slices[n - 1] \o <<".">> \o file_slices[n]
                  ELSE <<".">> \o file_slices[n]
        ELSE None

\* FileUrlSplit.__get_name, of self.__filename and self.__extension
get_name(f, e) == Replace(f, e, <<>>)

WindowsInvalidNames == <<
    <<"C", "O", "N">>, <<"P", "R", "N">>, <<"A", "U", "X">>, <<"N", "U", "L">>,
    <<"C", "O", "M", "0">>, <<"C", "O", "M", "1">>, <<"C", "O", "M", "2">>,
    <<"C", "O", "M", "3">>, <<"C", "O", "M", "4">>, <<"C", "O", "M", "5">>,
    <<"C", "O", "M", "6">>, <<"C", "O", "M", "7">>, <<"C", "O", "M", "8">>,
    <<"C", "O", "M", "9">>, <<"L", "P", "T", "0">>, <<"L", "P", "T", "1">>,
    <<"L", "P", "T", "2">>, <<"L", "P", "T", "3">>, <<"L", "P", "T", "4">>,
    <<"L", "P", "T", "5">>, <<"L", "P", "T", "6">>, <<"L", "P", "T", "7">>,
    <<"L", "P", "T", "8">>, <<"L", "P", "T", "9">> >>

\* string.punctuation without '~', ' ', '-', '_', '.'
AnotherInvalidChars ==
    <<"!", "\"", "#", "$", "%", "&", "'", "(", ")", "*", "+", ",", "/", ":",
      ";", "<", "=", ">", "?", "@", "[", "\\", "]", "^", "<0x60>", "{", "|",
      "}">>

\* FileUrlSplit.__set_invalid_chars, of sys.platform: the attributes it sets
set_invalid_chars(sp) ==
    IF StartsWith(sp, <<"l", "i", "n", "u", "x">>)
    THEN [platform |-> "Linux", invalid_chars |-> <<"/", "\\">>,
          invalid_names |-> None]
    ELSE IF Contains(sp, <<"b", "s", "d">>)
    THEN [platform |-> "BSD", invalid_chars |-> <<"/", "\\", ":">>,
          invalid_names |-> None]
    ELSE IF sp = <<"d", "a", "r", "w", "i", "n">>
    THEN [platform |-> "Mac", invalid_chars |-> <<"/", "\\", ":">>,
          invalid_names |-> None]
    ELSE IF Contains(sp, <<"w", "i", "n">>) \/ Contains(sp, <<"m", "s", "y", "s">>)
    THEN [platform |-> "Windows",
          invalid_chars |-> <<"\\", "/", ":", "*", "?", "\"", "<", ">", "|">>,
          invalid_names |-> WindowsInvalidNames]
    ELSE [platform |-> "Another", invalid_chars |-> AnotherInvalidChars,
          invalid_names |-> None]

\* FileUrlSplit.__check_invalid_chars: the invalid character raised with,
\* "" when it returns normally
check_invalid_chars(self, str_to_check) ==
    LET hits == {i \in 1..Len(self.invalid_chars) :
                     HasChar(str_to_check, self.invalid_chars[i])}
    IN  IF hits = {} THEN ""
        ELSE self.invalid_chars[CHOOSE i \in hits : \A j \in hits : i <= j]

\* FileUrlSplit.__check_invalid_names: TRUE when it raises
\* InvalidFilenameError
check_invalid_names(self, name_string) ==
    /\ ~Falsy(self.invalid_names)
    /\ \E i \in 1..Len(self.invalid_names) : self.invalid_names[i] = name_string

----------------------------------------------------------------------------
(* The object: self is the record of its attributes.  A method's result is *)
(* [self |-> the attributes when it returns or raises, err |-> what it     *)
(* raised].                                                                *)

Return(self) == [self |-> self, err |-> "none"]

Raised(self, kind) == [self |-> self, err |-> kind]

\* The checks one name gets in the url and path setters' loops and in the
\* name and filename setters: characters, then reserved names, then length.
\* chars is the string checked for characters, whole the name checked
\* against the reserved names and the length limit.
check_name(self, chars, whole) ==
    IF check_invalid_chars(self, chars) # "" THEN "InvalidCharacterError"
    ELSE IF check_invalid_names(self, whole) THEN "InvalidFilenameError"
    ELSE IF Len(whole) > LenLimit THEN "FilenameTooLongError"
    ELSE "none"

RECURSIVE check_split_names(_, _, _)
\* for split_name in s.split('/'): ... of the url and path setters: the
\* first exception raised, "none" when the loop ends
check_split_names(self, names, i) ==
    IF i > Len(names) THEN "none"
    ELSE LET r == check_name(self, names[i], names[i])
         IN  IF r # "none" THEN r ELSE check_split_names(self, names, i + 1)

\* The four lines that derive path, filename, extension and name from
\* self.__url
derive(self) ==
    LET p == get_path(self.url)
        f == get_filename(self.url, p)
        e == get_extension(f)
    IN  [self EXCEPT !.path = p, !.filename = f, !.extension = e,
                     !.name = get_name(f, e)]

\* FileUrlSplit.__init__, of sys.platform and file_url
init(sp, file_url) ==
    LET r == get_url(file_url)
        attrs == set_invalid_chars(sp)
        blank == [platform |-> attrs.platform,
                  invalid_chars |-> attrs.invalid_chars,
                  invalid_names |-> attrs.invalid_names,
                  url |-> <<>>, path |-> <<>>, filename |-> <<>>,
                  name |-> <<>>, extension |-> <<>>]
    IN  IF r.err # "none" THEN Raised(blank, r.err)
        ELSE Return(derive([blank EXCEPT !.url = r.val]))

\* FileUrlSplit.url (setter)
url_setter(self, file_url) ==
    IF file_url = self.url THEN Return(self)
    ELSE LET r == get_url(file_url)
         IN  IF r.err # "none" THEN Raised(self, r.err)
             ELSE LET c == check_split_names(self, Split(r.val, "/"), 1)
                      r2 == get_url(r.val)
                  IN  IF c # "none" THEN Raised(self, c)
                      ELSE IF r2.err # "none" THEN Raised(self, r2.err)
                      ELSE Return(derive([self EXCEPT !.url = r2.val]))

\* A faulty variant of the path setter that stores the new path before it checks
\* the path's names.
path_setter_stores_first(self, file_path) ==
    LET r == get_url(file_path)
    IN  IF r.err # "none" THEN Raised(self, r.err)
        ELSE IF r.val = self.path THEN Return(self)
        ELSE LET p == IF r.val[Len(r.val)] # "/" THEN r.val \o <<"/">> ELSE r.val
                 c == check_split_names(self, Split(p, "/"), 1)
                 r2 == get_url(p \o self.filename)
             IN  IF c # "none" THEN Raised([self EXCEPT !.path = p], c)
                 ELSE IF r2.err # "none"
                      THEN Raised([self EXCEPT !.path = p], r2.err)
                 ELSE Return([self EXCEPT !.path = p, !.url = r2.val])

\* FileUrlSplit.path (setter)
path_setter(self, file_path) ==
    LET r == get_url(file_path)
    IN  IF r.err # "none" THEN Raised(self, r.err)
        ELSE IF r.val = self.path THEN Return(self)
        ELSE LET p == IF r.val[Len(r.val)] # "/" THEN r.val \o <<"/">> ELSE r.val
                 c == check_split_names(self, Split(p, "/"), 1)
                 r2 == get_url(p \o self.filename)
             IN  IF c # "none" THEN Raised(self, c)
                 ELSE IF r2.err # "none"
                      THEN Raised([self EXCEPT !.path = p], r2.err)
                 ELSE Return([self EXCEPT !.path = p, !.url = r2.val])

\* A faulty variant of the name setter that, given an empty name, empties the name
\* and keeps the extension.
name_setter_keeps_extension(self, file_name) ==
    LET n == IF Falsy(file_name) THEN <<>> ELSE Unquote(file_name)
        c == check_name(self, n, n \o self.extension)
    IN  IF n = self.name THEN Return(self)
        ELSE IF n # <<>> /\ c # "none" THEN Raised(self, c)
        ELSE Return([self EXCEPT !.name = n,
                                 !.filename = n \o self.extension,
                                 !.url = self.path \o n \o self.extension])

\* FileUrlSplit.name (setter)
name_setter(self, file_name) ==
    LET n == IF Falsy(file_name) THEN <<>> ELSE Unquote(file_name)
        c == check_name(self, n, n \o self.extension)
    IN  IF n = self.name THEN Return(self)
        ELSE IF n # <<>>
        THEN IF c # "none" THEN Raised(self, c)
             ELSE Return([self EXCEPT !.name = n,
                                      !.filename = n \o self.extension,
                                      !.url = self.path \o n \o self.extension])
        ELSE Return([self EXCEPT !.name = self.extension,
                                 !.filename = self.extension,
                                 !.url = self.path \o self.extension,
                                 !.extension = <<>>])

\* FileUrlSplit.filename (setter)
filename_setter(self, fname) ==
    LET f == IF Falsy(fname) THEN <<>> ELSE Unquote(fname)
        c == IF f # <<>> THEN check_name(self, f, f) ELSE "none"
        e == get_extension(f)
    IN  IF f = self.filename THEN Return(self)
        ELSE IF c # "none" THEN Raised(self, c)
        ELSE Return([self EXCEPT !.filename = f,
                                 !.url = self.path \o f,
                                 !.extension = e,
                                 !.name = get_name(f, e)])

\* FileUrlSplit.extension (setter)
extension_setter(self, file_extension) ==
    LET x == IF Falsy(file_extension) THEN <<>> ELSE Unquote(file_extension)
        e == IF x # <<>> /\ x[1] # "." THEN <<".">> \o x ELSE x
        u == self.path \o self.name \o e
    IN  IF x = self.extension THEN Return(self)
        ELSE IF x # <<>> /\ check_invalid_chars(self, x) # ""
        THEN Raised(self, "InvalidCharacterError")
        ELSE IF x # <<>> /\ Len(self.name \o e) > LenLimit
        THEN Raised(self, "FilenameTooLongError")
        ELSE Return([self EXCEPT !.extension = e,
                                 !.url = u,
                                 !.filename = get_filename(u, self.path)])

----------------------------------------------------------------------------
(* The arguments the calls are made with.                                  *)

SeqsUpTo(S, n) == UNION {[1..k -> S] : k \in 0..n}

\* a name one character longer than the limit
LongName == [i \in 1..(LenLimit + 1) |-> "a"]

Prefixes == {<<>>, <<"f", "i", "l", "e", ":", "/", "/">>, <<"c", ":">>}

SpecialUrlArgs ==
    { None,
      <<"/", "a", "a", "/", "a", ".", "a">>,
      <<"\\", "a", "a">>,
      <<"c", ":", "\\", "a", "a">>,
      <<"/", "a", "%", "2", "5", "2", "5">>,
      <<"%", "2", "F", "a", "a">>,
      <<"/">> \o LongName,
      <<"/">> \o LongName \o <<"/", "a", "a">>,
      <<"/", ".">> \o LongName \o <<"/", "a", "a">>,
      <<"/", "a", ".", "a", ".", "a">>,
      <<"/", "a", ".", "t", "a", "r", ".", "a">>,
      <<"/", "C", "O", "N">>,
      <<"/", "C", "O", "N", "/", "a", "a">> }

\* 'file:///home/user/photo.png', the class doctest's argument
DocFileUrl ==
    <<"f", "i", "l", "e", ":", "/", "/", "/", "h", "o", "m", "e", "/", "u", "s",
      "e", "r", "/", "p", "h", "o", "t", "o", ".", "p", "n", "g">>

\* 'c:/x/y.txt', a drive-letter path
DocDriveUrl == <<"c", ":", "/", "x", "/", "y", ".", "t", "x", "t">>

\* file_url of the constructor
UrlArgs ==
    {p \o b : p \in Prefixes, b \in SeqsUpTo({"/", "a", "."}, MaxUrlLen)}
        \cup SpecialUrlArgs \cup {DocFileUrl, DocDriveUrl}

\* file_url of the url setter and file_path of the path setter: as UrlArgs,
\* the generic bodies one character shorter
SetterUrlArgs ==
    {p \o b : p \in Prefixes, b \in SeqsUpTo({"/", "a", "."}, MaxUrlLen - 1)}
        \cup SpecialUrlArgs

SpecialNameArgs ==
    { None,
      LongName,
      <<"a", ".", "a">>,
      <<"a", ".", "a", ".", "a">>,
      <<"C", "O", "N">>,
      <<"C", "O", "N", ".", "a">>,
      <<"a", "/">>,
      <<"a", ":">>,
      <<"a", "%", "2", "5">>,
      <<"%", "2", "E", "a">> }

\* file_name, filename and file_extension of the other three setters
NameArgs == SeqsUpTo({"a", "."}, MaxNameLen) \cup SpecialNameArgs

\* sys.platform of the builds modelled
SysPlatforms ==
    { <<"l", "i", "n", "u", "x">>,
      <<"f", "r", "e", "e", "b", "s", "d", "8">>,
      <<"d", "a", "r", "w", "i", "n">>,
      <<"c", "y", "g", "w", "i", "n">>,
      <<"s", "u", "n", "o", "s", "5">> }

----------------------------------------------------------------------------
(* The state machine.                                                      *)

Self ==
    [platform |-> platform, invalid_chars |-> invalid_chars,
     invalid_names |-> invalid_names, url |-> url, path |-> path,
     filename |-> filename, name |-> name, extension |-> extension]

\* The object's attributes become those of r.self.
Store(r) ==
    /\ platform' = r.self.platform
    /\ invalid_chars' = r.self.invalid_chars
    /\ invalid_names' = r.self.invalid_names
    /\ url' = r.self.url
    /\ path' = r.self.path
    /\ filename' = r.self.filename
    /\ name' = r.self.name
    /\ extension' = r.self.extension
    /\ err' = r.err

\* FileUrlSplit(file_url) in a process of some sys.platform
Init ==
    \E sp \in SysPlatforms, file_url \in UrlArgs :
        LET r == init(sp, file_url)
        IN  /\ sys_platform = sp
            /\ platform = r.self.platform
            /\ invalid_chars = r.self.invalid_chars
            /\ invalid_names = r.self.invalid_names
            /\ url = r.self.url
            /\ path = r.self.path
            /\ filename = r.self.filename
            /\ name = r.self.name
            /\ extension = r.self.extension
            /\ constructed = (r.err = "none")
            /\ op = "init"
            /\ arg = file_url
            /\ err = r.err
            /\ ncalls = 0

\* A setter may be called: the object exists, the caller has taken the
\* outcome of its last call, and calls are left.
Ready == constructed /\ op = "idle" /\ ncalls < MaxCalls

Called(o, a) ==
    /\ op' = o
    /\ arg' = a
    /\ ncalls' = ncalls + 1
    /\ UNCHANGED <<sys_platform, constructed>>

SetUrl ==
    \E a \in SetterUrlArgs : Ready /\ Store(url_setter(Self, a)) /\ Called("url", a)

SetPath ==
    \E a \in SetterUrlArgs : Ready /\ Store(path_setter(Self, a)) /\ Called("path", a)

SetName ==
    \E a \in NameArgs : Ready /\ Store(name_setter(Self, a)) /\ Called("name", a)

SetFilename ==
    \E a \in NameArgs :
        Ready /\ Store(filename_setter(Self, a)) /\ Called("filename", a)

SetExtension ==
    \E a \in NameArgs :
        Ready /\ Store(extension_setter(Self, a)) /\ Called("extension", a)

\* The caller takes the outcome of the call (its return, or the exception
\* it catches) and goes on; a failed construction leaves no object to go on
\* with.
Continue ==
    /\ constructed
    /\ op # "idle"
    /\ op' = "idle"
    /\ arg' = None
    /\ err' = "none"
    /\ UNCHANGED <<sys_platform, platform, invalid_chars, invalid_names, url,
                   path, filename, name, extension, constructed, ncalls>>

Next ==
    \/ SetUrl
    \/ SetPath
    \/ SetName
    \/ SetFilename
    \/ SetExtension
    \/ Continue

Spec == Init /\ [][Next]_vars

----------------------------------------------------------------------------
(* The derivation of the extension from a filename, by the three places    *)
(* that call __get_extension on a new filename: the constructor, the url   *)
(* setter and the filename setter, each given filenames in the directory   *)
(* '/'.                                                                    *)

\* filenames around the inner extension 'tar', and those of the docstrings
SpecialExtFilenames ==
    { <<"a", ".", "t", "a", "r", ".", "a">>,
      <<"t", "a", "r", ".", "a">>,
      <<".", "t", "a", "r", ".", "a">>,
      <<"a", ".", "t", "a", "r">>,
      <<"a", ".", "t", "a", "r", ".">>,
      <<"a", ".", "t", "a", "r", ".", "a", ".", "a">>,
      <<"a", ".", "a", ".", "t", "a", "r", ".", "a">>,
      <<"a", ".", "t", "a", "r", ".", ".", "a">>,
      <<"a", ".", ".", "t", "a", "r", ".", "a">>,
      <<"a", ".", "t", "a", "r", ".", "t", "a", "r">>,
      <<"t", "a", "r", ".", "t", "a", "r", ".", "a">>,
      <<".", "a", ".", "t", "a", "r", ".", "a">>,
      <<"a", ".", "T", "a", "r", ".", "a">>,
      <<"a", ".", "t", "a", ".", "a">>,
      <<"a", ".", "t", "a", "r", "r", ".", "a">>,
      <<"a", ".", "a", "t", "a", "r", ".", "a">>,
      <<"p", "h", "o", "t", "o", ".", "p", "n", "g">>,
      <<"a", "r", "c", "h", "i", "v", "e", ".", "t", "a", "r", ".", "g", "z">>,
      <<".", "g", "i", "t", "i", "g", "n", "o", "r", "e">>,
      <<"n", "o", "e", "x", "t", ".">>,
      <<"p", "l", "a", "i", "n">> }

\* the filenames given to the constructor and the two setters
ExtFilenames == SeqsUpTo({"a", "."}, MaxExtLen) \cup SpecialExtFilenames

\* FileUrlSplit('/' + filename) in a process of some sys.platform
ExtInit ==
    \E sp \in SysPlatforms, f \in ExtFilenames :
        LET file_url == <<"/">> \o f
            r == init(sp, file_url)
        IN  /\ sys_platform = sp
            /\ platform = r.self.platform
            /\ invalid_chars = r.self.invalid_chars
            /\ invalid_names = r.self.invalid_names
            /\ url = r.self.url
            /\ path = r.self.path
            /\ filename = r.self.filename
            /\ name = r.self.name
            /\ extension = r.self.extension
            /\ constructed = (r.err = "none")
            /\ op = "init"
            /\ arg = file_url
            /\ err = r.err
            /\ ncalls = 0

\* e.url = '/' + filename
ExtSetUrl ==
    \E f \in ExtFilenames :
        LET a == <<"/">> \o f
        IN  Ready /\ Store(url_setter(Self, a)) /\ Called("url", a)

\* e.filename = filename
ExtSetFilename ==
    \E f \in ExtFilenames :
        Ready /\ Store(filename_setter(Self, f)) /\ Called("filename", f)

ExtNext ==
    \/ ExtSetUrl
    \/ ExtSetFilename
    \/ Continue

ExtSpec == ExtInit /\ [][ExtNext]_vars

----------------------------------------------------------------------------
(* The properties checked.                                                 *)

Setters == {"url", "path", "name", "filename", "extension"}

\* the four exceptions the module defines
ModuleErrors ==
    {"AbsolutePathError", "InvalidCharacterError", "InvalidFilenameError",
     "FilenameTooLongError"}

\* C1: in every state of a constructed object, path + filename == url.
C1_PathPlusFilenameIsUrl == constructed => path \o filename = url

\* C2: in every state of a constructed object, name + extension ==
\* filename (name is filename less one trailing occurrence of extension).
C2_NamePlusExtensionIsFilename == constructed => name \o extension = filename

\* C3: a setter call that raises one of the module's four errors leaves
\* url, path, filename, name and extension as they were before the call.
C3_SetterAtomicOnError ==
    [][(op' \in Setters /\ err' \in ModuleErrors) => fields' = fields]_vars

\* a setter has raised on an object whose file has a name and an extension
C3_Witness ==
    /\ op \in Setters
    /\ err = "FilenameTooLongError"
    /\ name # <<>>
    /\ extension # <<>>

\* C4: FileUrlSplit(e.url) succeeds and has the path, filename, name and
\* extension of e, for every constructed object e.
C4_ReconstructionIdentical ==
    constructed =>
        LET r == init(sys_platform, url)
        IN  /\ r.err = "none"
            /\ r.self.path = path
            /\ r.self.filename = filename
            /\ r.self.name = name
            /\ r.self.extension = extension

\* P starts with '/', its '/'-delimited segments are non-empty, and it holds
\* no percent sign and no backslash
PlainAbsolute(P) ==
    /\ P # <<>>
    /\ P[1] = "/"
    /\ P[Len(P)] # "/"
    /\ \A i \in 1..(Len(P) - 1) : ~(P[i] = "/" /\ P[i + 1] = "/")
    /\ ~HasChar(P, "%")
    /\ ~HasChar(P, "\\")

FileScheme == <<"f", "i", "l", "e", ":", "/", "/">>

\* C5: FileUrlSplit('file://' + P) for a plain absolute P has url == P,
\* path == P up to and including its last '/', filename == the rest of P.
C5_FileUrlSplitsPlainPath ==
    LET P == From(arg, Len(FileScheme) + 1)
    IN  (op = "init" /\ StartsWith(arg, FileScheme) /\ PlainAbsolute(P)) =>
            /\ err = "none"
            /\ url = P
            /\ path = SubStr(P, 1, RFind(P, "/"))
            /\ filename = From(P, RFind(P, "/") + 1)

Drive == <<"c", ":">>

NotAbsolute(u) ==
    LET k == IF HasChar(u, ":")
             THEN CHOOSE i \in 1..Len(u) : u[i] = ":" /\ \A j \in 1..(i - 1) : u[j] # ":"
             ELSE 0
        prefixed == k >= 2 /\ \A j \in 1..(k - 1) : IsWord(u[j])
    IN  IF prefixed THEN k = Len(u) \/ u[k + 1] # "/"
        ELSE u = <<>> \/ u[1] # "/"

\* C7: the constructor, the url setter and the path setter raise
\* AbsolutePathError, and nothing else, for every non-empty argument whose
\* decoded, backslash-converted form is not absolute.
C7_NotAbsoluteRaisesAbsolutePathError ==
    (/\ op \in {"init", "url", "path"}
     /\ ~Falsy(arg)
     /\ NotAbsolute(ReplaceChar(Unquote(arg), "\\", "/"))) =>
        err = "AbsolutePathError"

\* the argument a of setter o, percent-decoded (and backslash-converted for
\* url and path), holds a segment longer than the limit: a '/'-delimited
\* one for url and path, the whole value for the others
HasLongSegment(o, a) ==
    /\ a # None
    /\ IF o \in {"url", "path"}
       THEN LET names == Split(ReplaceChar(Unquote(a), "\\", "/"), "/")
            IN  \E i \in 1..Len(names) : Len(names[i]) > LenLimit
       ELSE Len(Unquote(a)) > LenLimit

\* C8: a setter called with an argument that holds a segment longer than
\* the limit raises FilenameTooLongError and leaves the five fields as they
\* were.
C8_LongSegmentRaises ==
    [][(op' \in Setters /\ HasLongSegment(op', arg')) =>
           (err' = "FilenameTooLongError" /\ fields' = fields)]_vars

\* C9: on the Windows profile, setting filename to a reserved name followed
\* by an extension ('CON.a') raises InvalidFilenameError, whose list of
\* reserved names holds CON.
C9_ReservedNameWithExtensionRaises ==
    (/\ platform = "Windows"
     /\ op = "filename"
     /\ arg = <<"C", "O", "N", ".", "a">>) =>
        /\ err = "InvalidFilenameError"
        /\ \E i \in 1..Len(invalid_names) : invalid_names[i] = <<"C", "O", "N">>

RefExtension(f) ==
    LET lead == Cardinality({i \in 1..Len(f) : \A j \in 1..i : f[j] = "."})
        core == SubSeq(f, lead + 1, Len(f))
        Dots == {i \in 1..Len(core) : core[i] = "."}
        last == CHOOSE i \in Dots : \A j \in Dots : j <= i
        before == Dots \ {last}
        prev == CHOOSE i \in before : \A j \in before : j <= i
        Segment(a, b) == SubSeq(core, a + 1, b - 1)
        ending == Segment(last, Len(core) + 1)
    IN  IF Dots = {} \/ core[Len(core)] = "." THEN <<>>
        ELSE IF Cardinality(Dots) = 1 THEN <<".">> \o ending
        ELSE IF Segment(prev, last) = <<"t", "a", "r">>
        THEN <<".", "t", "a", "r", ".">> \o ending
        ELSE <<".">> \o ending

\* C11: after the constructor, the url setter or the filename setter has
\* returned, the extension is the one the dot-counting rule gives for the
\* filename: '' when the filename less its leading dots has no dot or ends
\* with a dot, '.' + the last segment when it has two segments, and with
\* three or more '.tar.' + the last segment when the segment before the
\* last is 'tar', '.' + the last segment otherwise.
C11_ExtensionIsDotCounting ==
    (constructed /\ op \in {"init", "url", "filename"} /\ err = "none") =>
        extension = RefExtension(filename)

\* the constructor has derived the inner extension of 'a.tar.a'
C11_Witness ==
    /\ constructed
    /\ op = "init"
    /\ err = "none"
    /\ filename = <<"a", ".", "t", "a", "r", ".", "a">>
    /\ extension = <<".", "t", "a", "r", ".", "a">>
    /\ name = <<"a">>

====
